---- MODULE Spec2Model ----
(***************************************************************************)
(* A model of libsemigroups' CongBase (src/src/cong-base.cpp): generator   *)
(* and generating-pair bookkeeping, word validation, the membership        *)
(* queries, and the parent / quotient references with their ownership.     *)
(*                                                                         *)
(* The pure virtual members (word_to_class_index, add_pair_impl,           *)
(* quotient_impl, ...), the parent FroidurePinBase and the Runner base     *)
(* class are collaborators: what they answer is an input of the action     *)
(* that calls them, and the calls made to them are logged in `calls`.      *)
(***************************************************************************)
EXTENDS Integers, Sequences, FiniteSets, TLC

\* ------------------------------------------------------------------------
\* Bounds of the model
\* ------------------------------------------------------------------------
\* Generator counts passed to set_nr_generators range over 0..MaxGens and
\* letters over 0..MaxGens, so the letter MaxGens is never valid.
MaxGens == 1
\* At most MaxPairs generating pairs are recorded.
MaxPairs == 1
\* At most MaxQuot quotient objects are built by quotient_impl.
MaxQuot == 2
\* Words handed to the validation functions have at most MaxValLen letters.
MaxValLen == 2
\* Class indices answered by the classification strategy are 0..MaxClass.
MaxClass == 1

\* ------------------------------------------------------------------------
\* Values
\* ------------------------------------------------------------------------
\* UNDEFINED converts to the largest value of the integer type it is
\* compared with; one byte stands for size_t here.
UNDEFINED == 255

Letters == 0 .. MaxGens
GenCounts == 0 .. MaxGens

WordsUpTo(n) == UNION {[1 .. k -> Letters] : k \in 0 .. n}
\* Words handed to add_pair and to the queries. These handlers read a word
\* only through validate_word, through == and through what the collaborators
\* answer about it, so the empty word and the one-letter words cover them.
Words == WordsUpTo(1)
\* Words handed to the validation functions.
ValWords == WordsUpTo(MaxValLen)

\* what word_to_class_index can answer
ClassIndices == 0 .. MaxClass
\* what const_word_to_class_index can answer
ConstClassIndices == ClassIndices \cup {UNDEFINED}

Types == {"TWOSIDED", "LEFT", "RIGHT"}

NULL == <<"nullptr", 0>>
ParentObj == <<"parent", 0>>
QuotObj(k) == <<"quotient", k>>
QuotObjs == {QuotObj(k) : k \in 1 .. MaxQuot}
Objs == {ParentObj} \cup QuotObjs

VARIABLES
  nrgens,     \* _nrgens
  gen_pairs,  \* _gen_pairs
  parent,     \* _parent
  quotient,   \* _quotient
  type,       \* _type
  finished,   \* Runner's finished flag
  released,   \* for each heap object, how many times it has been deleted
  nr_built,   \* how many objects quotient_impl has allocated
  status,     \* "live", "destroyed" (after ~CongBase) or "crashed"
  ret,        \* the most recent call and how it ended: <<function, outcome>>
  calls,      \* the collaborator calls made by the most recent call
  input,      \* the arguments a function is applied to (SpecValidate, SpecQuery)
  init_ntc_done,        \* _init_ntc_done
  non_trivial_classes,  \* _non_trivial_classes
  pc,         \* the statement of add_pair a thread has reached (SpecConc)
  observed    \* what a concurrent reader of _quotient has seen (SpecConc)

vars == <<nrgens, gen_pairs, parent, quotient, type, finished, released,
          nr_built, status, ret, calls, input, init_ntc_done,
          non_trivial_classes, pc, observed>>

\* the members of CongBase and the heap; ret, calls and input only observe
core == <<nrgens, gen_pairs, parent, quotient, type, finished, released,
          nr_built, status>>

\* the cache of the non-trivial classes
ntc == <<init_ntc_done, non_trivial_classes>>

\* the position of a thread inside add_pair and what a reader has seen
conc == <<pc, observed>>

Call(f, u, v, n) == [f |-> f, u |-> u, v |-> v, n |-> n]
CallNoArgs(f) == Call(f, <<>>, <<>>, UNDEFINED)

\* ------------------------------------------------------------------------
\* Validation
\* ------------------------------------------------------------------------
nr_generators == nrgens

\* validate_letter comparing with <= : the letter nrgens passes
validate_letter_off_by_one(c) ==
  IF nr_generators = UNDEFINED THEN "throw: no generators"
  ELSE IF c <= nrgens THEN "true" ELSE "false"

\* throws when no generators are defined, else answers whether c < _nrgens
validate_letter(c) ==
  IF nr_generators = UNDEFINED THEN "throw: no generators"
  ELSE IF c < nrgens THEN "true" ELSE "false"

RECURSIVE validate_word_from(_, _)
\* the loop of validate_word, from the i-th letter on
validate_word_from(w, i) ==
  IF i > Len(w) THEN "ok"
  ELSE LET r == validate_letter(w[i])
       IN  IF r = "throw: no generators" THEN r
           ELSE IF r = "false" THEN "throw: invalid letter"
           ELSE validate_word_from(w, i + 1)

validate_word(w) == validate_word_from(w, 1)

validate_relation(l, r) ==
  IF validate_word(l) # "ok" THEN validate_word(l) ELSE validate_word(r)

\* a call of validate_word(w)
validate_word_call(w) ==
  /\ status = "live"
  /\ ret' = <<"validate_word", validate_word(w)>>
  /\ calls' = <<>>
  /\ UNCHANGED <<core, input, ntc, conc>>

\* a call of validate_relation(l, r)
validate_relation_call(l, r) ==
  /\ status = "live"
  /\ ret' = <<"validate_relation", validate_relation(l, r)>>
  /\ calls' = <<>>
  /\ UNCHANGED <<core, input, ntc, conc>>

\* ------------------------------------------------------------------------
\* Initial state: CongBase::CongBase(type)
\* ------------------------------------------------------------------------
Init ==
  /\ nrgens = UNDEFINED
  /\ gen_pairs = <<>>
  /\ parent = NULL
  /\ quotient = NULL
  /\ type \in Types
  /\ finished = FALSE
  /\ released = [o \in Objs |-> 0]
  /\ nr_built = 0
  /\ status = "live"
  /\ ret = <<"CongBase", "ok">>
  /\ calls = <<>>
  /\ input = <<>>
  /\ init_ntc_done = FALSE
  /\ non_trivial_classes = <<>>
  /\ pc = "idle"
  /\ observed = "nothing"

\* ------------------------------------------------------------------------
\* set_nr_generators
\* ------------------------------------------------------------------------
\* set_nr_generators accepting a second call that repeats the recorded count
set_nr_generators_same_allowed(n) ==
  /\ status = "live"
  /\ IF nr_generators # UNDEFINED /\ n # nrgens
       THEN /\ ret' = <<"set_nr_generators", "throw: already set">>
            /\ calls' = <<>>
            /\ UNCHANGED <<core, input, ntc, conc>>
       ELSE /\ nrgens' = n
            /\ calls' = <<Call("set_nr_generators_impl", <<>>, <<>>, n)>>
            /\ ret' = <<"set_nr_generators", "ok">>
            /\ UNCHANGED <<gen_pairs, parent, quotient, type, finished,
                           released, nr_built, status, input, ntc, conc>>

set_nr_generators(n) ==
  /\ status = "live"
  /\ IF nr_generators # UNDEFINED
       THEN /\ ret' = <<"set_nr_generators", "throw: already set">>
            /\ calls' = <<>>
            /\ UNCHANGED <<core, input, ntc, conc>>
       ELSE /\ nrgens' = n
            /\ calls' = <<Call("set_nr_generators_impl", <<>>, <<>>, n)>>
            /\ ret' = <<"set_nr_generators", "ok">>
            /\ UNCHANGED <<gen_pairs, parent, quotient, type, finished,
                           released, nr_built, status, input, ntc, conc>>

\* ------------------------------------------------------------------------
\* The heap
\* ------------------------------------------------------------------------
\* `delete o`: deleting nullptr does nothing
Delete(o) ==
  IF o = NULL THEN released ELSE [released EXCEPT ![o] = @ + 1]

\* the object behind the pointer o has been deleted
Dangling(o) == o # NULL /\ released[o] > 0

has_parent_semigroup == parent # NULL

has_quotient_semigroup == quotient # NULL

\* ------------------------------------------------------------------------
\* add_pair(u, v); eq is what parent_semigroup()->equal_to(u, v) answers
\* when it is asked
\* ------------------------------------------------------------------------
\* the early returns of add_pair with set_finished(false) done before them
add_pair_returns_reopens(res) ==
  /\ ret' = <<"add_pair", res>>
  /\ calls' = <<>>
  /\ finished' = FALSE
  /\ UNCHANGED <<nrgens, gen_pairs, parent, quotient, type, released,
                 nr_built, status, input, ntc, conc>>

\* the early returns and the throws of add_pair
add_pair_returns(res) ==
  /\ ret' = <<"add_pair", res>>
  /\ calls' = <<>>
  /\ UNCHANGED <<core, input, ntc, conc>>

\* add_pair_records without set_finished(false)
add_pair_records_stays_finished(u, v) ==
  /\ Len(gen_pairs) < MaxPairs
  /\ gen_pairs' = Append(gen_pairs, <<u, v>>)
  /\ released' = Delete(quotient)
  /\ quotient' = NULL
  /\ calls' = <<Call("add_pair_impl", u, v, UNDEFINED)>>
  /\ ret' = <<"add_pair", "recorded">>
  /\ UNCHANGED <<nrgens, parent, type, finished, nr_built, status, input,
                 ntc, conc>>

\* lines 114-120
add_pair_records(u, v) ==
  /\ Len(gen_pairs) < MaxPairs
  /\ gen_pairs' = Append(gen_pairs, <<u, v>>)
  /\ released' = Delete(quotient)
  /\ quotient' = NULL
  /\ finished' = FALSE
  /\ calls' = <<Call("add_pair_impl", u, v, UNDEFINED)>>
  /\ ret' = <<"add_pair", "recorded">>
  /\ UNCHANGED <<nrgens, parent, type, nr_built, status, input, ntc, conc>>

\* equal_to is called through a pointer to a deleted parent: the call may
\* answer anything (eq) or bring the process down
add_pair_crashes ==
  /\ Dangling(parent)
  /\ status' = "crashed"
  /\ ret' = <<"add_pair", "crash">>
  /\ calls' = <<>>
  /\ UNCHANGED <<nrgens, gen_pairs, parent, quotient, type, finished,
                 released, nr_built, input, ntc, conc>>

\* add_pair without the early return for u == v
add_pair_no_equal_words_return(u, v, eq) ==
  /\ status = "live"
  /\ IF validate_word(u) # "ok" THEN add_pair_returns(validate_word(u))
     ELSE IF validate_word(v) # "ok" THEN add_pair_returns(validate_word(v))
     ELSE IF has_parent_semigroup
       THEN \/ eq /\ add_pair_returns("noop: equal in parent")
            \/ ~eq /\ add_pair_records(u, v)
            \/ add_pair_crashes
     ELSE add_pair_records(u, v)

add_pair(u, v, eq) ==
  /\ status = "live"
  /\ IF validate_word(u) # "ok" THEN add_pair_returns(validate_word(u))
     ELSE IF validate_word(v) # "ok" THEN add_pair_returns(validate_word(v))
     ELSE IF u = v THEN add_pair_returns("noop: equal words")
     ELSE IF has_parent_semigroup
       THEN \/ eq /\ add_pair_returns("noop: equal in parent")
            \/ ~eq /\ add_pair_records(u, v)
            \/ add_pair_crashes
     ELSE add_pair_records(u, v)

\* what equal_to can answer: nothing is asked when there is no parent
EqualToAnswers == IF has_parent_semigroup THEN BOOLEAN ELSE {FALSE}

\* ------------------------------------------------------------------------
\* set_parent_semigroup(prnt), called as its assertions require: prnt is
\* not nullptr, and no other parent is attached
\* ------------------------------------------------------------------------
\* set_parent_semigroup without `_quotient = prnt`
set_parent_semigroup_no_alias(prnt) ==
  /\ status = "live"
  /\ prnt # NULL
  /\ parent = NULL \/ parent = prnt
  /\ ret' = <<"set_parent_semigroup", "ok">>
  /\ calls' = <<>>
  /\ IF prnt = parent
       THEN UNCHANGED <<core, input, ntc, conc>>
       ELSE /\ parent' = prnt
            /\ UNCHANGED <<nrgens, gen_pairs, quotient, type, finished,
                           released, nr_built, status, input, ntc, conc>>

set_parent_semigroup(prnt) ==
  /\ status = "live"
  /\ prnt # NULL
  /\ parent = NULL \/ parent = prnt
  /\ ret' = <<"set_parent_semigroup", "ok">>
  /\ calls' = <<>>
  /\ IF prnt = parent
       THEN UNCHANGED <<core, input, ntc, conc>>
       ELSE /\ parent' = prnt
            /\ quotient' = IF gen_pairs = <<>> THEN prnt ELSE quotient
            /\ UNCHANGED <<nrgens, gen_pairs, type, finished, released,
                           nr_built, status, input, ntc, conc>>

\* ------------------------------------------------------------------------
\* quotient_semigroup(); inf is what is_quotient_obviously_infinite()
\* answers (false unless overridden), q is what quotient_impl() returns
\* ------------------------------------------------------------------------
\* quotient_impl returns a newly allocated object or the parent itself
QuotientImplReturns ==
  {QuotObj(k) : k \in {nr_built + 1} \cap (1 .. MaxQuot)}
    \cup {o \in {parent} : o # NULL /\ ~Dangling(o)}

\* what is_quotient_obviously_infinite can answer: the base class answers
\* false; an override may answer true, but not for a quotient of a parent
ObviouslyInfiniteAnswers == IF has_parent_semigroup THEN {FALSE} ELSE BOOLEAN

\* quotient_semigroup without the test of the congruence type
quotient_semigroup_any_type(inf, q) ==
  /\ status = "live"
  /\ IF inf
       THEN /\ ret' = <<"quotient_semigroup", "throw: infinite">>
            /\ calls' = <<CallNoArgs("is_quotient_obviously_infinite")>>
            /\ UNCHANGED <<core, input, ntc, conc>>
     ELSE IF quotient = NULL
       THEN /\ q \in QuotientImplReturns
            /\ quotient' = q
            /\ nr_built' = IF q \in QuotObjs THEN nr_built + 1 ELSE nr_built
            /\ ret' = <<"quotient_semigroup", "ok">>
            /\ calls' = <<CallNoArgs("is_quotient_obviously_infinite"),
                          CallNoArgs("quotient_impl")>>
            /\ UNCHANGED <<nrgens, gen_pairs, parent, type, finished,
                           released, status, input, ntc, conc>>
     ELSE /\ ret' = <<"quotient_semigroup", "ok">>
          /\ calls' = <<CallNoArgs("is_quotient_obviously_infinite")>>
          /\ UNCHANGED <<core, input, ntc, conc>>

\* quotient_semigroup calling quotient_impl whether or not a quotient is
\* cached
quotient_semigroup_always_builds(inf, q) ==
  /\ status = "live"
  /\ IF type # "TWOSIDED"
       THEN /\ ret' = <<"quotient_semigroup", "throw: not two-sided">>
            /\ calls' = <<>>
            /\ UNCHANGED <<core, input, ntc, conc>>
     ELSE IF inf
       THEN /\ ret' = <<"quotient_semigroup", "throw: infinite">>
            /\ calls' = <<CallNoArgs("is_quotient_obviously_infinite")>>
            /\ UNCHANGED <<core, input, ntc, conc>>
     ELSE /\ q \in QuotientImplReturns
          /\ quotient' = q
          /\ nr_built' = IF q \in QuotObjs THEN nr_built + 1 ELSE nr_built
          /\ ret' = <<"quotient_semigroup", "ok">>
          /\ calls' = <<CallNoArgs("is_quotient_obviously_infinite"),
                        CallNoArgs("quotient_impl")>>
          /\ UNCHANGED <<nrgens, gen_pairs, parent, type, finished,
                         released, status, input, ntc, conc>>

quotient_semigroup(inf, q) ==
  /\ status = "live"
  /\ IF type # "TWOSIDED"
       THEN /\ ret' = <<"quotient_semigroup", "throw: not two-sided">>
            /\ calls' = <<>>
            /\ UNCHANGED <<core, input, ntc, conc>>
     ELSE IF inf
       THEN /\ ret' = <<"quotient_semigroup", "throw: infinite">>
            /\ calls' = <<CallNoArgs("is_quotient_obviously_infinite")>>
            /\ UNCHANGED <<core, input, ntc, conc>>
     ELSE IF quotient = NULL
       THEN /\ q \in QuotientImplReturns
            /\ quotient' = q
            /\ nr_built' = IF q \in QuotObjs THEN nr_built + 1 ELSE nr_built
            /\ ret' = <<"quotient_semigroup", "ok">>
            /\ calls' = <<CallNoArgs("is_quotient_obviously_infinite"),
                          CallNoArgs("quotient_impl")>>
            /\ UNCHANGED <<nrgens, gen_pairs, parent, type, finished,
                           released, status, input, ntc, conc>>
     ELSE /\ ret' = <<"quotient_semigroup", "ok">>
          /\ calls' = <<CallNoArgs("is_quotient_obviously_infinite")>>
          /\ UNCHANGED <<core, input, ntc, conc>>

\* ------------------------------------------------------------------------
\* ~CongBase
\* ------------------------------------------------------------------------
Destroy ==
  /\ status = "live"
  /\ released' = IF parent # quotient THEN Delete(quotient) ELSE released
  /\ status' = "destroyed"
  /\ ret' = <<"~CongBase", "ok">>
  /\ calls' = <<>>
  /\ UNCHANGED <<nrgens, gen_pairs, parent, quotient, type, finished,
                 nr_built, input, ntc, conc>>

\* ------------------------------------------------------------------------
\* The Runner: the enumeration runs to its end
\* ------------------------------------------------------------------------
Run ==
  /\ status = "live"
  /\ ~finished
  /\ finished' = TRUE
  /\ ret' = <<"run", "ok">>
  /\ calls' = <<>>
  /\ UNCHANGED <<nrgens, gen_pairs, parent, quotient, type, released,
                 nr_built, status, input, ntc, conc>>

\* ------------------------------------------------------------------------
\* contains(w1, w2); c1 and c2 are what word_to_class_index answers for w1
\* and for w2 when it is asked
\* ------------------------------------------------------------------------
Bool(b) == IF b THEN "true" ELSE "false"

\* contains classifying before it compares the words
contains_classifies_first(w1, w2, c1, c2) ==
  /\ status = "live"
  /\ ret' = <<"contains", Bool(c1 = c2 \/ w1 = w2)>>
  /\ calls' = <<Call("word_to_class_index", w1, <<>>, UNDEFINED),
                Call("word_to_class_index", w2, <<>>, UNDEFINED)>>
  /\ UNCHANGED <<core, input, ntc, conc>>

contains(w1, w2, c1, c2) ==
  /\ status = "live"
  /\ IF w1 = w2
       THEN /\ ret' = <<"contains", "true">>
            /\ calls' = <<>>
       ELSE /\ ret' = <<"contains", Bool(c1 = c2)>>
            /\ calls' = <<Call("word_to_class_index", w1, <<>>, UNDEFINED),
                          Call("word_to_class_index", w2, <<>>, UNDEFINED)>>
  /\ UNCHANGED <<core, input, ntc, conc>>

\* ------------------------------------------------------------------------
\* less(w1, w2)
\* ------------------------------------------------------------------------
less(w1, w2, c1, c2) ==
  /\ status = "live"
  /\ ret' = <<"less", Bool(c1 < c2)>>
  /\ calls' = <<Call("word_to_class_index", w1, <<>>, UNDEFINED),
                Call("word_to_class_index", w2, <<>>, UNDEFINED)>>
  /\ UNCHANGED <<core, input, ntc, conc>>

\* ------------------------------------------------------------------------
\* const_contains(u, v); cu and cv are what const_word_to_class_index
\* answers for u and for v (UNDEFINED unless overridden)
\* ------------------------------------------------------------------------
\* const_contains without the finished() test
const_contains_result_ignores_finished(cu, cv, fin) ==
  IF cu = UNDEFINED \/ cv = UNDEFINED THEN "UNKNOWN"
  ELSE IF cu = cv THEN "TRUE"
  ELSE "FALSE"

\* the result of const_contains, lines 62-71
const_contains_result(cu, cv, fin) ==
  IF cu = UNDEFINED \/ cv = UNDEFINED THEN "UNKNOWN"
  ELSE IF cu = cv THEN "TRUE"
  ELSE IF fin THEN "FALSE"
  ELSE "UNKNOWN"

const_contains(u, v, cu, cv) ==
  /\ status = "live"
  /\ ret' = <<"const_contains", const_contains_result(cu, cv, finished)>>
  /\ calls' = <<>>
  /\ UNCHANGED <<core, input, ntc, conc>>

\* ------------------------------------------------------------------------
\* The object's life
\* ------------------------------------------------------------------------
Next ==
  \/ \E n \in GenCounts : set_nr_generators(n)
  \/ \E u, v \in Words : \E eq \in EqualToAnswers : add_pair(u, v, eq)
  \/ set_parent_semigroup(ParentObj)
  \/ \E inf \in ObviouslyInfiniteAnswers :
       \E q \in QuotientImplReturns \cup {NULL} : quotient_semigroup(inf, q)
  \/ \E w \in Words : validate_word_call(w)
  \/ Destroy
  \/ Run

Spec == Init /\ [][Next]_vars

\* ------------------------------------------------------------------------
\* The validation functions applied to words of up to MaxValLen letters,
\* for every generator count the object can have
\* ------------------------------------------------------------------------
InitValidate ==
  /\ nrgens \in GenCounts \cup {UNDEFINED}
  /\ gen_pairs = <<>>
  /\ parent = NULL
  /\ quotient = NULL
  /\ type \in Types
  /\ finished = FALSE
  /\ released = [o \in Objs |-> 0]
  /\ nr_built = 0
  /\ status = "live"
  /\ ret = <<"CongBase", "ok">>
  /\ calls = <<>>
  /\ input \in ValWords \X ValWords
  /\ init_ntc_done = FALSE
  /\ non_trivial_classes = <<>>
  /\ pc = "idle"
  /\ observed = "nothing"

NextValidate ==
  \/ validate_word_call(input[1])
  \/ validate_relation_call(input[1], input[2])

SpecValidate == InitValidate /\ [][NextValidate]_vars

\* ------------------------------------------------------------------------
\* The queries applied to two words and to what the classification answers
\* for them, for every generator count and either value of the finished flag
\* ------------------------------------------------------------------------
InitQuery ==
  /\ nrgens \in GenCounts \cup {UNDEFINED}
  /\ gen_pairs = <<>>
  /\ parent = NULL
  /\ quotient = NULL
  /\ type \in Types
  /\ finished \in BOOLEAN
  /\ released = [o \in Objs |-> 0]
  /\ nr_built = 0
  /\ status = "live"
  /\ ret = <<"CongBase", "ok">>
  /\ calls = <<>>
  /\ input \in Words \X Words \X ConstClassIndices \X ConstClassIndices
  /\ init_ntc_done = FALSE
  /\ non_trivial_classes = <<>>
  /\ pc = "idle"
  /\ observed = "nothing"

NextQuery ==
  \/ /\ input[3] \in ClassIndices /\ input[4] \in ClassIndices
     /\ contains(input[1], input[2], input[3], input[4])
  \/ /\ input[3] \in ClassIndices /\ input[4] \in ClassIndices
     /\ less(input[1], input[2], input[3], input[4])
  \/ const_contains(input[1], input[2], input[3], input[4])

SpecQuery == InitQuery /\ [][NextQuery]_vars
\* ------------------------------------------------------------------------
\* The non-trivial classes
\* ------------------------------------------------------------------------
\* the largest parent whose elements are scanned in the life cycle, and in
\* the scan taken alone
MaxParentSize == 2
MaxScanSize == 4

\* the answers of nr_classes(), and of word_to_class_index for the words of
\* a parent of the given size: an index below the class count
ClassCounts == 1 .. MaxClass + 1
ClassMaps(size, nc) == [0 .. size - 1 -> 0 .. nc - 1]

\* _parent->factorisation(w, pos): a word for each position, different
\* positions giving different words (here the powers of the generator 0)
factorisation(pos) == [i \in 1 .. pos + 1 |-> 0]

\* where a scan stops: it runs to the end, or nr_classes() or the
\* word_to_class_index call at a position throws, or reading through a
\* parent pointer that was deleted ends the program
Stops(size) ==
  {<<"never", 0>>, <<"nr_classes", 0>>, <<"deleted parent", 0>>}
    \cup {<<"word_to_class_index", k>> : k \in 0 .. size - 1}

\* _non_trivial_classes.assign(n, std::vector<word_type>())
assign(n) == [c \in 1 .. n |-> <<>>]

\* the loop over the positions pos .. size - 1 of the parent
RECURSIVE scan_from(_, _, _, _)
scan_from(classes, pos, size, cls) ==
  IF pos >= size
    THEN classes
    ELSE scan_from([classes EXCEPT ![cls[pos] + 1] =
                      Append(@, factorisation(pos))],
                   pos + 1, size, cls)

\* the remove_if predicate with `klass.size() < 1`
is_trivial_only_empty(klass) == Len(klass) < 1

\* the remove_if predicate
is_trivial(klass) == Len(klass) <= 1

not_trivial(klass) == ~is_trivial(klass)

\* _non_trivial_classes.erase(std::remove_if(...), end)
erase_trivial(classes) == SelectSeq(classes, not_trivial)

\* the collaborator calls of the loop for the positions pos .. last
RECURSIVE scan_calls(_, _)
scan_calls(pos, last) ==
  IF pos > last
    THEN <<>>
    ELSE <<Call("factorisation", <<>>, <<>>, pos),
           Call("word_to_class_index", factorisation(pos), <<>>, UNDEFINED)>>
         \o scan_calls(pos + 1, last)

\* init_non_trivial_classes that scans on every request
init_non_trivial_classes_rescans(f, size, nc, cls, stop) ==
  /\ status = "live"
  /\ stop \in Stops(size)
  /\ cls \in ClassMaps(size, nc)
  /\ IF parent = NULL
       THEN /\ ret' = <<f, "throw: no parent">>
            /\ calls' = <<>>
            /\ UNCHANGED <<core, input, ntc, conc>>
     ELSE /\ stop = <<"never", 0>>
          /\ init_ntc_done' = TRUE
          /\ non_trivial_classes' =
               erase_trivial(scan_from(assign(nc), 0, size, cls))
          /\ ret' = <<f, "ok">>
          /\ calls' = <<CallNoArgs("nr_classes")>> \o scan_calls(0, size - 1)
          /\ UNCHANGED <<core, input, conc>>

\* init_non_trivial_classes with `_init_ntc_done = true` as its first
\* statement
init_non_trivial_classes_marks_first(f, size, nc, cls, stop) ==
  /\ status = "live"
  /\ stop \in Stops(size)
  /\ cls \in ClassMaps(size, nc)
  /\ IF init_ntc_done
       THEN /\ ret' = <<f, "ok">>
            /\ calls' = <<>>
            /\ UNCHANGED <<core, input, ntc, conc>>
     ELSE IF parent = NULL
       THEN /\ init_ntc_done' = TRUE
            /\ ret' = <<f, "throw: no parent">>
            /\ calls' = <<>>
            /\ UNCHANGED <<core, input, non_trivial_classes, conc>>
     ELSE /\ stop = <<"never", 0>>
          /\ init_ntc_done' = TRUE
          /\ non_trivial_classes' =
               erase_trivial(scan_from(assign(nc), 0, size, cls))
          /\ ret' = <<f, "ok">>
          /\ calls' = <<CallNoArgs("nr_classes")>> \o scan_calls(0, size - 1)
          /\ UNCHANGED <<core, input, conc>>

\* init_non_trivial_classes, called by f; the parent has `size` elements,
\* nr_classes() answers nc and word_to_class_index answers cls[pos] for the
\* word of position pos
init_non_trivial_classes(f, size, nc, cls, stop) ==
  /\ status = "live"
  /\ stop \in Stops(size)
  /\ cls \in ClassMaps(size, nc)
  /\ IF init_ntc_done
       THEN /\ ret' = <<f, "ok">>
            /\ calls' = <<>>
            /\ UNCHANGED <<core, input, ntc, conc>>
     ELSE IF parent = NULL
       THEN /\ ret' = <<f, "throw: no parent">>
            /\ calls' = <<>>
            /\ UNCHANGED <<core, input, ntc, conc>>
     ELSE IF stop = <<"deleted parent", 0>>
       THEN /\ Dangling(parent)
            /\ status' = "crashed"
            /\ init_ntc_done' = TRUE
            /\ ret' = <<f, "crash">>
            /\ calls' = <<CallNoArgs("nr_classes")>>
            /\ non_trivial_classes' = assign(nc)
            /\ UNCHANGED <<nrgens, gen_pairs, parent, quotient, type,
                           finished, released, nr_built, input, conc>>
     ELSE IF stop = <<"nr_classes", 0>>
       THEN /\ init_ntc_done' = TRUE
            /\ ret' = <<f, "throw: aborted">>
            /\ calls' = <<CallNoArgs("nr_classes")>>
            /\ UNCHANGED <<core, input, non_trivial_classes, conc>>
     ELSE IF stop[1] = "word_to_class_index"
       THEN /\ init_ntc_done' = TRUE
            /\ non_trivial_classes' = scan_from(assign(nc), 0, stop[2], cls)
            /\ ret' = <<f, "throw: aborted">>
            /\ calls' = <<CallNoArgs("nr_classes")>> \o scan_calls(0, stop[2])
            /\ UNCHANGED <<core, input, conc>>
     ELSE /\ init_ntc_done' = TRUE
          /\ non_trivial_classes' =
               erase_trivial(scan_from(assign(nc), 0, size, cls))
          /\ ret' = <<f, "ok">>
          /\ calls' = <<CallNoArgs("nr_classes")>> \o scan_calls(0, size - 1)
          /\ UNCHANGED <<core, input, conc>>

nr_non_trivial_classes(size, nc, cls, stop) ==
  init_non_trivial_classes("nr_non_trivial_classes", size, nc, cls, stop)

cbegin_ntc(size, nc, cls, stop) ==
  init_non_trivial_classes("cbegin_ntc", size, nc, cls, stop)

cend_ntc(size, nc, cls, stop) ==
  init_non_trivial_classes("cend_ntc", size, nc, cls, stop)

\* a request consults the parent and the strategy only when the classes are
\* not computed and a parent is attached; otherwise no answers are drawn
Scans == ~init_ntc_done /\ parent # NULL
ParentSizes == IF Scans THEN 0 .. MaxParentSize ELSE {0}
NrClassesAnswers == IF Scans THEN ClassCounts ELSE {1}
StopsOfRequest(size) == IF Scans THEN Stops(size) ELSE {<<"never", 0>>}

\* the life cycle with requests for the non-trivial classes; the pairs
\* added are the pairs (u, empty word)
NextNtc ==
  \/ \E n \in GenCounts : set_nr_generators(n)
  \/ \E u \in Words : \E eq \in EqualToAnswers : add_pair(u, <<>>, eq)
  \/ set_parent_semigroup(ParentObj)
  \/ \E inf \in ObviouslyInfiniteAnswers :
       \E q \in QuotientImplReturns \cup {NULL} : quotient_semigroup(inf, q)
  \/ \E size \in ParentSizes : \E nc \in NrClassesAnswers :
       \E cls \in ClassMaps(size, nc) : \E stop \in StopsOfRequest(size) :
         nr_non_trivial_classes(size, nc, cls, stop)

SpecNtc == Init /\ [][NextNtc]_vars

\* the first request taken alone: a congruence with a parent attached and
\* no pair recorded, and the answers the scan is going to get
InitScan ==
  /\ nrgens = 1
  /\ gen_pairs = <<>>
  /\ parent = ParentObj
  /\ quotient = ParentObj
  /\ type \in Types
  /\ finished = FALSE
  /\ released = [o \in Objs |-> 0]
  /\ nr_built = 0
  /\ status = "live"
  /\ ret = <<"set_parent_semigroup", "ok">>
  /\ calls = <<>>
  /\ \E size \in 0 .. MaxScanSize : \E nc \in ClassCounts :
       \E cls \in ClassMaps(size, nc) : input = <<size, nc, cls>>
  /\ init_ntc_done = FALSE
  /\ non_trivial_classes = <<>>
  /\ pc = "idle"
  /\ observed = "nothing"

NextScan ==
  \/ nr_non_trivial_classes(input[1], input[2], input[3], <<"never", 0>>)
  \/ cbegin_ntc(input[1], input[2], input[3], <<"never", 0>>)
  \/ cend_ntc(input[1], input[2], input[3], <<"never", 0>>)

SpecScan == InitScan /\ [][NextScan]_vars
\* ------------------------------------------------------------------------
\* add_pair statement by statement, with a second thread reading _quotient.
\* Nothing in the class orders the reads of one thread with the writes of
\* another, so a read can fall between any two statements.
\* ------------------------------------------------------------------------
\* an add_pair that returns early or throws
add_pair_not_recording(u, v, eq) ==
  /\ pc = "idle"
  /\ add_pair(u, v, eq)
  /\ ret'[2] # "recorded"

\* lines 105-116 of an add_pair that goes on to record: the pair is appended
add_pair_emplace_back(u, v, eq) ==
  /\ status = "live"
  /\ pc = "idle"
  /\ validate_word(u) = "ok"
  /\ validate_word(v) = "ok"
  /\ u # v
  /\ ~(has_parent_semigroup /\ eq)
  /\ Len(gen_pairs) < MaxPairs
  /\ gen_pairs' = Append(gen_pairs, <<u, v>>)
  /\ pc' = "line 117"
  /\ ret' = <<"add_pair", "line 114">>
  /\ calls' = <<>>
  /\ UNCHANGED <<nrgens, parent, quotient, type, finished, released,
                 nr_built, status, input, ntc, observed>>

\* line 117: delete _quotient
add_pair_delete_quotient ==
  /\ status = "live"
  /\ pc = "line 117"
  /\ released' = Delete(quotient)
  /\ pc' = "line 118"
  /\ ret' = <<"add_pair", "line 117">>
  /\ calls' = <<>>
  /\ UNCHANGED <<nrgens, gen_pairs, parent, quotient, type, finished,
                 nr_built, status, input, ntc, observed>>

\* line 118: _quotient = nullptr
add_pair_clear_quotient ==
  /\ status = "live"
  /\ pc = "line 118"
  /\ quotient' = NULL
  /\ pc' = "line 119"
  /\ ret' = <<"add_pair", "line 118">>
  /\ calls' = <<>>
  /\ UNCHANGED <<nrgens, gen_pairs, parent, type, finished, released,
                 nr_built, status, input, ntc, observed>>

\* lines 119-120: set_finished(false); add_pair_impl(u, v)
add_pair_finish ==
  /\ status = "live"
  /\ pc = "line 119"
  /\ finished' = FALSE
  /\ pc' = "idle"
  /\ ret' = <<"add_pair", "recorded">>
  /\ calls' = <<Call("add_pair_impl", gen_pairs[Len(gen_pairs)][1],
                     gen_pairs[Len(gen_pairs)][2], UNDEFINED)>>
  /\ UNCHANGED <<nrgens, gen_pairs, parent, quotient, type, released,
                 nr_built, status, input, ntc, observed>>

\* has_quotient_semigroup() called by the second thread, which goes on to
\* use the pointer it found: the read sees nullptr, a live object or an
\* object already deleted
has_quotient_semigroup_read ==
  /\ status = "live"
  /\ observed' = IF quotient = NULL THEN "nullptr"
                 ELSE IF Dangling(quotient) THEN "deleted"
                 ELSE "live"
  /\ ret' = <<"has_quotient_semigroup", Bool(has_quotient_semigroup)>>
  /\ calls' = <<>>
  /\ UNCHANGED <<core, input, ntc, pc>>

NextConc ==
  \/ /\ pc = "idle"
     /\ \E n \in GenCounts : set_nr_generators(n)
  \/ \E u \in Words : \E eq \in EqualToAnswers :
       add_pair_not_recording(u, <<>>, eq)
  \/ \E u \in Words : \E eq \in EqualToAnswers :
       add_pair_emplace_back(u, <<>>, eq)
  \/ add_pair_delete_quotient
  \/ add_pair_clear_quotient
  \/ add_pair_finish
  \/ /\ pc = "idle"
     /\ set_parent_semigroup(ParentObj)
  \/ /\ pc = "idle"
     /\ \E inf \in ObviouslyInfiniteAnswers :
          \E q \in QuotientImplReturns \cup {NULL} :
            quotient_semigroup(inf, q)
  \/ has_quotient_semigroup_read

SpecConc == Init /\ [][NextConc]_vars
\* ------------------------------------------------------------------------
\* Properties
\* ------------------------------------------------------------------------
\* some letter of w is outside [0, n)
HasLetterOutside(w, n) == \E i \in 1 .. Len(w) : w[i] >= n

\* the generator count is known and every letter of w is below it
ValidWord(w) == nrgens # UNDEFINED /\ ~HasLetterOutside(w, nrgens)

Throws(r) == r[2] \in {"throw: no generators", "throw: invalid letter",
                       "throw: already set", "throw: not two-sided",
                       "throw: infinite"}

\* C1: the core never releases the parent structure: whatever attachParent,
\* addPair, quotientStructure and destruction have been called, the parent
\* object has been deleted zero times.
C1_ParentNeverReleased == released[ParentObj] = 0

\* C2: no quotient object built by quotient_impl is ever deleted twice, and
\* once the core is destroyed each of them has been deleted exactly once.
C2_OwnedQuotientReleasedOnce ==
  /\ \A k \in 1 .. MaxQuot : released[QuotObj(k)] <= 1
  /\ status = "destroyed" => \A k \in 1 .. nr_built : released[QuotObj(k)] = 1

\* C3: const_contains answers UNKNOWN when either class index is UNDEFINED,
\* TRUE when both are defined and equal, and for defined, different indices
\* FALSE if finished and UNKNOWN if not; it never answers FALSE while the
\* computation is not finished.
C3_ConstContainsTable ==
  [][\A u, v \in Words : \A cu, cv \in ConstClassIndices :
       const_contains(u, v, cu, cv) =>
         /\ (cu = UNDEFINED \/ cv = UNDEFINED) => ret'[2] = "UNKNOWN"
         /\ (cu # UNDEFINED /\ cv # UNDEFINED /\ cu = cv) => ret'[2] = "TRUE"
         /\ (cu # UNDEFINED /\ cv # UNDEFINED /\ cu # cv /\ finished)
              => ret'[2] = "FALSE"
         /\ (cu # UNDEFINED /\ cv # UNDEFINED /\ cu # cv /\ ~finished)
              => ret'[2] = "UNKNOWN"
         /\ ret'[2] = "FALSE" => finished]_vars

\* const_contains has answered UNKNOWN for a finished computation, because
\* one of the two class indices was UNDEFINED
C3_Witness ==
  /\ ret = <<"const_contains", "UNKNOWN">>
  /\ finished
  /\ input[3] = UNDEFINED
  /\ input[4] # UNDEFINED

C5_AddPairNoOp ==
  [][\A u, v \in Words : (ValidWord(u) /\ ValidWord(v)) =>
       \A eq \in BOOLEAN :
         ( /\ (u = v \/ (has_parent_semigroup /\ eq))
           /\ add_pair(u, v, eq) ) =>
           /\ UNCHANGED <<gen_pairs, quotient, finished, released>>
           /\ calls' = <<>>]_vars

\* add_pair has returned early on the parent's answer while a quotient was
\* cached and the computation finished
C5_Witness ==
  /\ ret = <<"add_pair", "noop: equal in parent">>
  /\ finished
  /\ quotient # NULL

\* C6: contains(w1, w2) throws, without answering and without calling
\* word_to_class_index, when the generator count is unset or a letter of w1
\* or of w2 is outside [0, nrgens).
C6_ContainsValidates ==
  [][( /\ contains(input[1], input[2], input[3], input[4])
       /\ \/ nrgens = UNDEFINED
          \/ HasLetterOutside(input[1], nrgens)
          \/ HasLetterOutside(input[2], nrgens) ) =>
       Throws(ret') /\ calls' = <<>>]_vars

\* C7: contains(w, w) answers true and calls word_to_class_index zero
\* times; contains(w1, w2) with w1 # w2 answers true exactly when
\* word_to_class_index answers the same index for w1 and for w2.
C7_ContainsEqualWords ==
  [][\A w1, w2 \in Words : \A c1, c2 \in ClassIndices :
       contains(w1, w2, c1, c2) =>
         /\ w1 = w2 =>
              /\ ret'[2] = "true"
              /\ \A k \in 1 .. Len(calls') :
                   calls'[k].f # "word_to_class_index"
         /\ w1 # w2 => (ret'[2] = "true" <=> c1 = c2)]_vars

\* contains has answered true for a word and itself, without classifying,
\* although the classification would have answered two different indices
C7_Witness ==
  /\ ret = <<"contains", "true">>
  /\ calls = <<>>
  /\ input[1] = input[2]
  /\ input[3] # input[4]

C9_ValidateWord ==
  [][( /\ (validate_word_call(input[1]) /\ nrgens # UNDEFINED) =>
            /\ Throws(ret') <=> HasLetterOutside(input[1], nrgens)
            /\ UNCHANGED core
       /\ (validate_relation_call(input[1], input[2]) /\ nrgens # UNDEFINED) =>
            /\ Throws(ret') <=> ( \/ HasLetterOutside(input[1], nrgens)
                                  \/ HasLetterOutside(input[2], nrgens) )
            /\ UNCHANGED core )]_vars

\* validate_relation has thrown for a valid first word and a second word
\* whose last letter only is out of range
C9_Witness ==
  /\ ret = <<"validate_relation", "throw: invalid letter">>
  /\ nrgens # UNDEFINED
  /\ ~HasLetterOutside(input[1], nrgens)
  /\ Len(input[2]) = 2
  /\ input[2][1] < nrgens
  /\ input[2][2] >= nrgens

\* C10: while the generator count is unset, every add_pair(u, v) and every
\* validate_word(w) throws, the empty words included.
C10_NothingValidBeforeGenerators ==
  [][ /\ \A u, v \in Words : \A eq \in BOOLEAN :
           (add_pair(u, v, eq) /\ nrgens = UNDEFINED) => Throws(ret')
      /\ \A w \in Words :
           (validate_word_call(w) /\ nrgens = UNDEFINED) => Throws(ret')]_vars

\* quotient_impl is among the collaborator calls of the log c
Builds(c) == \E k \in 1 .. Len(c) : c[k].f = "quotient_impl"

\* C11: for a LEFT or RIGHT congruence every quotient_semigroup() throws,
\* whatever the state; the call does not call quotient_impl and leaves the
\* cached quotient reference as it is.
C11_QuotientNeedsTwoSided ==
  [][type # "TWOSIDED" =>
       \A inf \in BOOLEAN : \A q \in Objs \cup {NULL} :
         quotient_semigroup(inf, q) =>
           /\ Throws(ret')
           /\ ~Builds(calls')
           /\ quotient' = quotient
           /\ nr_built' = nr_built]_vars

\* quotient_semigroup has thrown for a finished one-sided congruence whose
\* quotient reference aliases the parent
C11_Witness ==
  /\ type # "TWOSIDED"
  /\ ret = <<"quotient_semigroup", "throw: not two-sided">>
  /\ quotient = parent
  /\ parent # NULL
  /\ finished

\* C12: in every reachable state has_quotient_semigroup() is true only if
\* the congruence is TWOSIDED.
C12_QuotientOnlyTwoSided == has_quotient_semigroup => type = "TWOSIDED"

C17_FailedAddPairChangesNothing ==
  [][\A u, v \in Words : (~ValidWord(u) \/ ~ValidWord(v)) =>
       \A eq \in BOOLEAN :
         add_pair(u, v, eq) => (UNCHANGED core /\ calls' = <<>>)]_vars

\* add_pair has thrown on an invalid letter while a quotient was cached and
\* the computation finished
C17_Witness ==
  /\ ret = <<"add_pair", "throw: invalid letter">>
  /\ finished
  /\ quotient # NULL
  /\ nr_built = 1

C14_ClassesComputedOnce ==
  [][init_ntc_done =>
       /\ init_ntc_done'
       /\ non_trivial_classes' = non_trivial_classes
       /\ ret'[1] = "nr_non_trivial_classes" =>
            (ret'[2] = "ok" /\ calls' = <<>>)]_vars

\* a later request has returned a non-empty grouping without a scan, after
\* a pair was recorded and a quotient built
C14_Witness ==
  /\ init_ntc_done
  /\ ret = <<"nr_non_trivial_classes", "ok">>
  /\ calls = <<>>
  /\ non_trivial_classes # <<>>
  /\ gen_pairs # <<>>
  /\ nr_built >= 1

\* the positions of the parent's elements whose word is in class c, for the
\* answers input = <<size, nc, cls>>
C15_Positions(c) == {pos \in 0 .. input[1] - 1 : input[3][pos] = c}

\* the words of class c in increasing position
C15_Group(c) ==
  [i \in 1 .. Cardinality(C15_Positions(c)) |->
     factorisation(CHOOSE p \in C15_Positions(c) :
                     Cardinality({q \in C15_Positions(c) : q < p}) = i - 1)]

\* the class indices with at least two words
C15_NonTrivial ==
  {c \in 0 .. input[2] - 1 : Cardinality(C15_Positions(c)) >= 2}

\* C15: with a parent of size s attached, the first request computes
\* exactly the groups of the class indices with at least two words, one
\* group for each, in increasing class index, the words of a group in
\* increasing position; classes with one word or none are left out.
C15_ScanResult ==
  init_ntc_done =>
    /\ non_trivial_classes =
         [k \in 1 .. Cardinality(C15_NonTrivial) |->
            C15_Group(CHOOSE c \in C15_NonTrivial :
                        Cardinality({d \in C15_NonTrivial : d < c}) = k - 1)]
    /\ \A k \in 1 .. Len(non_trivial_classes) :
         Len(non_trivial_classes[k]) >= 2

\* positions 1 and 3 are in class 0 and positions 0 and 2 in class 1: the
\* group of class 0 comes first although its words come later
C15_Witness ==
  /\ init_ntc_done
  /\ input[1] = 4
  /\ non_trivial_classes =
       << <<factorisation(1), factorisation(3)>>,
          <<factorisation(0), factorisation(2)>> >>

\* C16: a request made while no parent is attached throws and changes
\* nothing: the classes stay not computed and empty. While they are not
\* computed the cache is empty, and a request that then returns normally
\* has scanned the parent and keeps groups of at least two words only.
C16_NoParentLeavesCacheUnset ==
  [][ /\ ( /\ ~init_ntc_done
           /\ parent = NULL
           /\ ret'[1] = "nr_non_trivial_classes" ) =>
             /\ ret'[2] = "throw: no parent"
             /\ ~init_ntc_done'
             /\ non_trivial_classes' = <<>>
             /\ calls' = <<>>
             /\ UNCHANGED core
      /\ ~init_ntc_done => non_trivial_classes = <<>>
      /\ ( /\ ~init_ntc_done
           /\ ret' = <<"nr_non_trivial_classes", "ok">> ) =>
             /\ parent # NULL
             /\ init_ntc_done'
             /\ Len(calls') >= 1
             /\ calls'[1].f = "nr_classes"
             /\ \A k \in 1 .. Len(non_trivial_classes') :
                  Len(non_trivial_classes'[k]) >= 2 ]_vars

\* a request has thrown for want of a parent, after a quotient was built
C16_Witness ==
  /\ ret = <<"nr_non_trivial_classes", "throw: no parent">>
  /\ parent = NULL
  /\ ~init_ntc_done
  /\ non_trivial_classes = <<>>
  /\ nr_built = 1

\* C19: after a request whose scan was aborted (nr_classes or
\* word_to_class_index threw) the non-trivial classes are not marked as
\* computed.
C19_AbortedScanNotMarked ==
  ret = <<"nr_non_trivial_classes", "throw: aborted">> => ~init_ntc_done

\* C20: a thread reading the cached quotient while another thread is inside
\* add_pair never finds a pointer to an object that is already deleted.
C20_ReaderNeverSeesDeleted == observed # "deleted"
====
